---- MODULE Spec2Model ----
(***************************************************************************)
(* Model of the watermill benchmark harness, package pkg:                  *)
(*   - NewPubSub / PubSub.Close and the pubSubDefinitions registry,        *)
(*   - PubSub.PublishMessages with its pool of worker goroutines,          *)
(*   - PubSub.payload.                                                     *)
(*                                                                         *)
(* The worker goroutines are anonymous closures that capture no per-worker *)
(* data (the loop variable num is not used in the body), so the pool is    *)
(* kept as the number of workers at each position of the closure, and the  *)
(* envelope a busy worker holds carries that worker's position.            *)
(***************************************************************************)
EXTENDS Integers, Sequences, FiniteSets, TLC

\* ---------------------------------------------------------------- bounds
MaxMessages == 2        \* largest explicit messagesCount argument tried
MaxSize == 1            \* largest messageSize argument tried

\* ------------------------------------------------------------- constants
defaultMessagesCount == 1000000
workers == 200
multiplierCount == 16   \* second argument of both NewMultiplier calls

Nil == "nil"
Byte == {0, 1}
PublishErr == "publish failed"
ReadErr == "rand.Read failed"
PubCloseErr == "publisher close failed"
SubCloseErr == "subscriber close failed"
MakeSlicePanic == "makeslice: len out of range"
ConstructorPanic == "constructor panic"

\* --------------------------------------------------------------- registry
RegisteredNames ==
  {"gochannel", "kafka", "kafka-multinode", "nats", "googlecloud",
   "mysql", "postgresql", "amqp"}

\* PubSubDefinition: MessagesCount, UUIDFunc (Nil when the literal leaves it
\* out) and whether the Constructor contains a panic(err).
PubSubDefinition(mc, uf, p) ==
  [MessagesCount |-> mc, UUIDFunc |-> uf, CanPanic |-> p]

pubSubDefinitions ==
  [n \in RegisteredNames |->
     CASE n = "gochannel"       -> PubSubDefinition(0, Nil, FALSE)
       [] n = "kafka"           -> PubSubDefinition(20000000, Nil, TRUE)
       [] n = "kafka-multinode" -> PubSubDefinition(20000000, Nil, TRUE)
       [] n = "nats"            -> PubSubDefinition(0, Nil, TRUE)
       [] n = "googlecloud"     -> PubSubDefinition(0, Nil, TRUE)
       [] n = "mysql"           -> PubSubDefinition(30000, "newBinaryULID", TRUE)
       [] n = "postgresql"      -> PubSubDefinition(30000, "watermill.NewUUID", TRUE)
       [] n = "amqp"            -> PubSubDefinition(100000, Nil, TRUE)]

\* Mutation of LookupOk: the "amqp" entry is missing from the map.
LookupOkMutant(name) == name \in DOMAIN pubSubDefinitions \ {"amqp"}

\* definition, ok := pubSubDefinitions[name]
LookupOk(name) == name \in DOMAIN pubSubDefinitions

\* The handles a Constructor returns.  gochannel returns the same GoChannel
\* value twice; every other constructor builds two distinct values.
ConstructorPublisher(name) ==
  IF name = "gochannel" THEN <<name, "pubsub">> ELSE <<name, "publisher">>
ConstructorSubscriber(name) ==
  IF name = "gochannel" THEN <<name, "pubsub">> ELSE <<name, "subscriber">>

\* Mutation of ResolveMessagesCount: the definition's count is never consulted.
ResolveMessagesCountMutant(messagesCount, definition) ==
  IF messagesCount = 0 THEN defaultMessagesCount ELSE messagesCount

\* if messagesCount == 0 { if definition.MessagesCount != 0 {...} else {...} }
ResolveMessagesCount(messagesCount, definition) ==
  IF messagesCount = 0
    THEN IF definition.MessagesCount # 0
           THEN definition.MessagesCount
           ELSE defaultMessagesCount
    ELSE messagesCount

\* The constructors whose subscriber is NewMultiplier(factory, 16).
UsesMultiplier(name) == name \in {"googlecloud", "amqp"}

\* NewMultiplier(factory, count) with a factory that succeeds every time: the
\* number of subscriber instances the multiplier holds.
NewMultiplier(count) == count

\* The subscriber instances behind the Subscriber handle of a constructor.
ConstructorInstances(name) ==
  IF UsesMultiplier(name) THEN NewMultiplier(multiplierCount) ELSE 0

\* PubSub{}: the zero value returned next to the unknown-PubSub error.
ZeroPubSub ==
  [Publisher |-> Nil, Subscriber |-> Nil, MessagesCount |-> 0,
   MessageSize |-> 0, Topic |-> "", UUIDFunc |-> Nil]

\* The PubSub literal NewPubSub returns on success.
MakePubSub(name, topic, messagesCount, messageSize) ==
  [Publisher     |-> ConstructorPublisher(name),
   Subscriber    |-> ConstructorSubscriber(name),
   MessagesCount |-> ResolveMessagesCount(messagesCount, pubSubDefinitions[name]),
   MessageSize   |-> messageSize,
   Topic         |-> topic,
   UUIDFunc      |-> pubSubDefinitions[name].UUIDFunc]

\* fmt.Errorf("unknown PubSub: %s", name)
UnknownPubSubErr(name) == "unknown PubSub: " \o name

\* ----------------------------------------------------------------- inputs
Names == RegisteredNames \cup {"doesnotexist"}
Topics == {"benchmark"}
CountArgs == -1 .. MaxMessages
SizeArgs == -1 .. MaxSize

\* ------------------------------------------------------------------ state
VARIABLES
  pcNew,         \* NewPubSub: "notcalled", "returned" or "panicked"
  args,          \* arguments of the NewPubSub call
  ps,            \* the PubSub value NewPubSub returned
  newErr,        \* the error NewPubSub returned (Nil for none)
  constructed,   \* names whose Constructor has been invoked
  crashed,       \* Nil, or the value of the panic that ended the process
  pcMain,        \* position of the goroutine running PublishMessages
  num,           \* loop variable of the spawning loop
  messagesLeft,
  wg,            \* counter of the sync.WaitGroup
  addMsgClosed,  \* close(addMsg) has been executed
  ranging,       \* workers at `for msg := range addMsg`
  exited,        \* workers whose closure has returned normally
  msgPayload,    \* value of msgPayload after ps.payload()
  payloadCalls,  \* invocations of ps.payload()
  msgs,          \* envelopes built so far, in construction order
  shortUUIDs,    \* watermill.NewShortUUID() calls so far
  reportLines,   \* "added ... msg/s" lines printed
  pubRet,        \* return value of PublishMessages (Nil for none)
  pcClose,       \* position inside PubSub.Close
  closeLog,      \* Close invocations on the handles, in order
  closeRet,      \* return value of PubSub.Close (Nil for none)
  subs,          \* instances held by the multiplier behind ps.Subscriber
  subsClosed,    \* instances the multiplier's Close has closed
  subsErr        \* first error the multiplier's Close has collected

vars ==
  <<pcNew, args, ps, newErr, constructed, crashed, pcMain, num,
    messagesLeft, wg, addMsgClosed, ranging, exited, msgPayload,
    payloadCalls, msgs, shortUUIDs, reportLines, pubRet, pcClose,
    closeLog, closeRet, subs, subsClosed, subsErr>>

sessionVars == <<pcNew, args, ps, newErr, constructed, subs>>
runVars ==
  <<pcMain, num, messagesLeft, wg, addMsgClosed, ranging, exited,
    msgPayload, payloadCalls, msgs, shortUUIDs, reportLines, pubRet>>
closeVars == <<pcClose, closeLog, closeRet, subsClosed, subsErr>>

NoArgs == [name |-> "", topic |-> "", messagesCount |-> 0, messageSize |-> 0]

Init ==
  /\ pcNew = "notcalled"
  /\ args = NoArgs
  /\ ps = ZeroPubSub
  /\ newErr = Nil
  /\ constructed = {}
  /\ crashed = Nil
  /\ pcMain = "notcalled"
  /\ num = 0
  /\ messagesLeft = 0
  /\ wg = 0
  /\ addMsgClosed = FALSE
  /\ ranging = 0
  /\ exited = 0
  /\ msgPayload = <<>>
  /\ payloadCalls = 0
  /\ msgs = <<>>
  /\ shortUUIDs = 0
  /\ reportLines = 0
  /\ pubRet = Nil
  /\ pcClose = "notcalled"
  /\ closeLog = <<>>
  /\ closeRet = Nil
  /\ subs = 0
  /\ subsClosed = 0
  /\ subsErr = Nil

Alive == crashed = Nil

\* --------------------------------------------------------------- NewPubSub
\* Unknown name: return PubSub{}, fmt.Errorf("unknown PubSub: %s", name).
NewPubSubUnknown ==
  /\ Alive /\ pcNew = "notcalled"
  /\ \E name \in Names, topic \in Topics, mc \in CountArgs, ms \in SizeArgs :
       /\ ~LookupOk(name)
       /\ args' = [name |-> name, topic |-> topic,
                   messagesCount |-> mc, messageSize |-> ms]
       /\ ps' = ZeroPubSub
       /\ newErr' = UnknownPubSubErr(name)
  /\ pcNew' = "returned"
  /\ UNCHANGED <<constructed, crashed, subs>>
  /\ UNCHANGED runVars /\ UNCHANGED closeVars

\* Known name, Constructor returns its two handles.
NewPubSubOk ==
  /\ Alive /\ pcNew = "notcalled"
  /\ \E name \in Names, topic \in Topics, mc \in CountArgs, ms \in SizeArgs :
       /\ LookupOk(name)
       /\ args' = [name |-> name, topic |-> topic,
                   messagesCount |-> mc, messageSize |-> ms]
       /\ constructed' = constructed \cup {name}
       /\ ps' = MakePubSub(name, topic, mc, ms)
       /\ subs' = ConstructorInstances(name)
       /\ newErr' = Nil
  /\ pcNew' = "returned"
  /\ UNCHANGED crashed
  /\ UNCHANGED runVars /\ UNCHANGED closeVars

\* Known name, Constructor hits one of its panic(err) statements.
NewPubSubPanic ==
  /\ Alive /\ pcNew = "notcalled"
  /\ \E name \in Names, topic \in Topics, mc \in CountArgs, ms \in SizeArgs :
       /\ LookupOk(name)
       /\ pubSubDefinitions[name].CanPanic
       /\ args' = [name |-> name, topic |-> topic,
                   messagesCount |-> mc, messageSize |-> ms]
       /\ constructed' = constructed \cup {name}
  /\ pcNew' = "panicked"
  /\ crashed' = ConstructorPanic
  /\ UNCHANGED <<ps, newErr, subs>>
  /\ UNCHANGED runVars /\ UNCHANGED closeVars

\* The caller holds a session: NewPubSub returned without error.
HasSession == pcNew = "returned" /\ newErr = Nil

\* --------------------------------------------------------- PublishMessages
\* Lines 15-25: messagesLeft := ps.MessagesCount; wg.Add(workers);
\* addMsg := make(chan *message.Message).
PublishMessages ==
  /\ Alive /\ HasSession
  /\ pcMain = "notcalled" /\ pcClose = "notcalled"
  /\ ps.MessagesCount <= MaxMessages
  /\ pcMain' = "spawn"
  /\ num' = 0
  /\ messagesLeft' = ps.MessagesCount
  /\ wg' = wg + workers
  /\ UNCHANGED <<addMsgClosed, ranging, exited, msgPayload, payloadCalls,
                 msgs, shortUUIDs, reportLines, pubRet, crashed>>
  /\ UNCHANGED sessionVars /\ UNCHANGED closeVars

\* for num := 0; num < workers; num++ { go func() {...}() }
SpawnWorker ==
  /\ Alive /\ pcMain = "spawn"
  /\ num < workers
  /\ num' = num + 1
  /\ ranging' = ranging + 1
  /\ UNCHANGED <<pcMain, messagesLeft, wg, addMsgClosed, exited, msgPayload,
                 payloadCalls, msgs, shortUUIDs, reportLines, pubRet, crashed>>
  /\ UNCHANGED sessionVars /\ UNCHANGED closeVars

\* Mutation of SpawnDone: the spawning loop stops one iteration early.
SpawnDoneMutant ==
  /\ Alive /\ pcMain = "spawn"
  /\ ~(num < workers - 1)
  /\ pcMain' = "payload"
  /\ UNCHANGED <<num, messagesLeft, wg, addMsgClosed, ranging, exited,
                 msgPayload, payloadCalls, msgs, shortUUIDs, reportLines,
                 pubRet, crashed>>
  /\ UNCHANGED sessionVars /\ UNCHANGED closeVars

\* The loop condition num < workers fails.
SpawnDone ==
  /\ Alive /\ pcMain = "spawn"
  /\ ~(num < workers)
  /\ pcMain' = "payload"
  /\ UNCHANGED <<num, messagesLeft, wg, addMsgClosed, ranging, exited,
                 msgPayload, payloadCalls, msgs, shortUUIDs, reportLines,
                 pubRet, crashed>>
  /\ UNCHANGED sessionVars /\ UNCHANGED closeVars

\* Mutation of PayloadBuffers: the buffer is allocated one byte too long.
PayloadBuffersMutant(size) == [1 .. size + 1 -> Byte]

\* make([]byte, ps.MessageSize) followed by rand.Read: the buffers payload()
\* can return for a size.
PayloadBuffers(size) == [1 .. size -> Byte]

\* msgPayload, err := ps.payload() with err == nil.
PayloadOk ==
  /\ Alive /\ pcMain = "payload"
  /\ ps.MessageSize >= 0
  /\ \E buf \in PayloadBuffers(ps.MessageSize) : msgPayload' = buf
  /\ payloadCalls' = payloadCalls + 1
  /\ pcMain' = "loop"
  /\ UNCHANGED <<num, messagesLeft, wg, addMsgClosed, ranging, exited, msgs,
                 shortUUIDs, reportLines, pubRet, crashed>>
  /\ UNCHANGED sessionVars /\ UNCHANGED closeVars

\* rand.Read returns an error: payload returns nil, err and
\* PublishMessages returns err.
PayloadErr ==
  /\ Alive /\ pcMain = "payload"
  /\ ps.MessageSize >= 0
  /\ payloadCalls' = payloadCalls + 1
  /\ pubRet' = ReadErr
  /\ pcMain' = "returned"
  /\ UNCHANGED <<num, messagesLeft, wg, addMsgClosed, ranging, exited,
                 msgPayload, msgs, shortUUIDs, reportLines, crashed>>
  /\ UNCHANGED sessionVars /\ UNCHANGED closeVars

\* make([]byte, n) with n < 0 panics in the calling goroutine.
PayloadPanic ==
  /\ Alive /\ pcMain = "payload"
  /\ ps.MessageSize < 0
  /\ payloadCalls' = payloadCalls + 1
  /\ crashed' = MakeSlicePanic
  /\ UNCHANGED <<pcMain, num, messagesLeft, wg, addMsgClosed, ranging,
                 exited, msgPayload, msgs, shortUUIDs, reportLines, pubRet>>
  /\ UNCHANGED sessionVars /\ UNCHANGED closeVars

\* message.NewMessage(watermill.NewULID(), msgPayload): a fresh identifier,
\* the shared payload, empty metadata (corr is the correlation id, <<>> while
\* unset).  st is the position of the goroutine that holds the envelope;
\* recvs, stamps and calls count the receives from addMsg and the
\* SetCorrelationID and Publish invocations on it.
NewMessage(uuid, payload) ==
  [uuid |-> uuid, payload |-> payload, corr |-> <<>>, stamps |-> 0,
   st |-> "offered", recvs |-> 0, calls |-> 0]

\* watermill.NewULID(): the n-th identifier it hands out.
NewULID(n) == <<"watermill.NewULID", n>>

\* Mutation of BuildMessage: addMsg has a buffer, the send does not wait for
\* a receiver.
BuildMessageMutant ==
  /\ Alive /\ pcMain = "loop"
  /\ messagesLeft > 0
  /\ msgs' = Append(msgs, NewMessage(NewULID(Len(msgs) + 1), msgPayload))
  /\ messagesLeft' = messagesLeft - 1
  /\ UNCHANGED <<pcMain, num, wg, addMsgClosed, ranging, exited,
                 msgPayload, payloadCalls, shortUUIDs, reportLines, pubRet,
                 crashed>>
  /\ UNCHANGED sessionVars /\ UNCHANGED closeVars

\* Loop body up to the send: messagesLeft > 0, build msg, block on addMsg <-.
BuildMessage ==
  /\ Alive /\ pcMain = "loop"
  /\ messagesLeft > 0
  /\ msgs' = Append(msgs, NewMessage(NewULID(Len(msgs) + 1), msgPayload))
  /\ pcMain' = "send"
  /\ UNCHANGED <<num, messagesLeft, wg, addMsgClosed, ranging, exited,
                 msgPayload, payloadCalls, shortUUIDs, reportLines, pubRet,
                 crashed>>
  /\ UNCHANGED sessionVars /\ UNCHANGED closeVars

\* addMsg is unbuffered: the send completes together with the receive of a
\* worker waiting in `range addMsg`; then messagesLeft--.
Handoff ==
  /\ Alive /\ pcMain = "send"
  /\ ranging > 0
  /\ ranging' = ranging - 1
  /\ msgs' = [msgs EXCEPT ![Len(msgs)].st = "received",
                          ![Len(msgs)].recvs = @ + 1]
  /\ messagesLeft' = messagesLeft - 1
  /\ pcMain' = "loop"
  /\ UNCHANGED <<num, wg, addMsgClosed, exited, msgPayload, payloadCalls,
                 shortUUIDs, reportLines, pubRet, crashed>>
  /\ UNCHANGED sessionVars /\ UNCHANGED closeVars

\* Mutation of CloseAddMsg: the producer goes to wg.Wait() without closing
\* addMsg.
CloseAddMsgForgottenMutant ==
  /\ Alive /\ pcMain = "loop"
  /\ ~(messagesLeft > 0)
  /\ pcMain' = "wait"
  /\ UNCHANGED <<num, messagesLeft, wg, addMsgClosed, ranging, exited,
                 msgPayload, payloadCalls, msgs, shortUUIDs, reportLines,
                 pubRet, crashed>>
  /\ UNCHANGED sessionVars /\ UNCHANGED closeVars

\* Mutation of CloseAddMsg: the producer loop stops one envelope early.
CloseAddMsgMutant ==
  /\ Alive /\ pcMain = "loop"
  /\ ~(messagesLeft > 1)
  /\ addMsgClosed' = TRUE
  /\ pcMain' = "wait"
  /\ UNCHANGED <<num, messagesLeft, wg, ranging, exited, msgPayload,
                 payloadCalls, msgs, shortUUIDs, reportLines, pubRet, crashed>>
  /\ UNCHANGED sessionVars /\ UNCHANGED closeVars

\* Loop condition fails: close(addMsg), then the producer is at wg.Wait().
CloseAddMsg ==
  /\ Alive /\ pcMain = "loop"
  /\ ~(messagesLeft > 0)
  /\ addMsgClosed' = TRUE
  /\ pcMain' = "wait"
  /\ UNCHANGED <<num, messagesLeft, wg, ranging, exited, msgPayload,
                 payloadCalls, msgs, shortUUIDs, reportLines, pubRet, crashed>>
  /\ UNCHANGED sessionVars /\ UNCHANGED closeVars

\* Mutation of WgWait: the producer does not wait for the workers.
WgWaitMutant ==
  /\ Alive /\ pcMain = "wait"
  /\ pcMain' = "report"
  /\ UNCHANGED <<num, messagesLeft, wg, addMsgClosed, ranging, exited,
                 msgPayload, payloadCalls, msgs, shortUUIDs, reportLines,
                 pubRet, crashed>>
  /\ UNCHANGED sessionVars /\ UNCHANGED closeVars

\* wg.Wait() returns once the counter is zero.
WgWait ==
  /\ Alive /\ pcMain = "wait"
  /\ wg = 0
  /\ pcMain' = "report"
  /\ UNCHANGED <<num, messagesLeft, wg, addMsgClosed, ranging, exited,
                 msgPayload, payloadCalls, msgs, shortUUIDs, reportLines,
                 pubRet, crashed>>
  /\ UNCHANGED sessionVars /\ UNCHANGED closeVars

\* fmt.Printf("added %d messages in %s, %f msg/s\n", ...)
Report ==
  /\ Alive /\ pcMain = "report"
  /\ reportLines' = reportLines + 1
  /\ pcMain' = "return"
  /\ UNCHANGED <<num, messagesLeft, wg, addMsgClosed, ranging, exited,
                 msgPayload, payloadCalls, msgs, shortUUIDs, pubRet, crashed>>
  /\ UNCHANGED sessionVars /\ UNCHANGED closeVars

\* return nil
ReturnNil ==
  /\ Alive /\ pcMain = "return"
  /\ pubRet' = Nil
  /\ pcMain' = "returned"
  /\ UNCHANGED <<num, messagesLeft, wg, addMsgClosed, ranging, exited,
                 msgPayload, payloadCalls, msgs, shortUUIDs, reportLines,
                 crashed>>
  /\ UNCHANGED sessionVars /\ UNCHANGED closeVars

\* ---------------------------------------------------------------- workers
Held(st) == {k \in 1 .. Len(msgs) : msgs[k].st = st}

\* watermill.NewShortUUID(): a value no other call returns.  The value is
\* named by the envelope and the stamping it is made for, which keeps the
\* values of distinct calls distinct whatever the order of the calls.
NewShortUUID(k, n) == <<"short", k, n>>

\* middleware.SetCorrelationID(watermill.NewShortUUID(), msg)
SetCorrelationID ==
  /\ Alive
  /\ \E k \in Held("received") :
       msgs' = [msgs EXCEPT ![k].corr = NewShortUUID(k, msgs[k].stamps + 1),
                            ![k].stamps = @ + 1,
                            ![k].st = "stamped"]
  /\ shortUUIDs' = shortUUIDs + 1
  /\ UNCHANGED <<pcMain, num, messagesLeft, wg, addMsgClosed, ranging,
                 exited, msgPayload, payloadCalls, reportLines, pubRet,
                 crashed>>
  /\ UNCHANGED sessionVars /\ UNCHANGED closeVars

\* Mutation of PublishCall: Publish is also invoked on an envelope that has
\* not been given its correlation id.
PublishCallMutant ==
  /\ Alive
  /\ \E k \in Held("stamped") \cup Held("received") :
       msgs' = [msgs EXCEPT ![k].calls = @ + 1, ![k].st = "publishing"]
  /\ UNCHANGED <<pcMain, num, messagesLeft, wg, addMsgClosed, ranging,
                 exited, msgPayload, payloadCalls, shortUUIDs, reportLines,
                 pubRet, crashed>>
  /\ UNCHANGED sessionVars /\ UNCHANGED closeVars

\* ps.Publisher.Publish(ps.Topic, msg) is invoked.
PublishCall ==
  /\ Alive
  /\ \E k \in Held("stamped") :
       msgs' = [msgs EXCEPT ![k].calls = @ + 1, ![k].st = "publishing"]
  /\ UNCHANGED <<pcMain, num, messagesLeft, wg, addMsgClosed, ranging,
                 exited, msgPayload, payloadCalls, shortUUIDs, reportLines,
                 pubRet, crashed>>
  /\ UNCHANGED sessionVars /\ UNCHANGED closeVars

\* Mutation of PublishOk: after a first successful Publish the worker
\* publishes the same envelope once more.
PublishOkMutant ==
  /\ Alive
  /\ \E k \in Held("publishing") :
       IF msgs[k].calls < 2
         THEN /\ msgs' = [msgs EXCEPT ![k].st = "stamped"]
              /\ ranging' = ranging
         ELSE /\ msgs' = [msgs EXCEPT ![k].st = "published"]
              /\ ranging' = ranging + 1
  /\ UNCHANGED <<pcMain, num, messagesLeft, wg, addMsgClosed, exited,
                 msgPayload, payloadCalls, shortUUIDs, reportLines, pubRet,
                 crashed>>
  /\ UNCHANGED sessionVars /\ UNCHANGED closeVars

\* Publish returns nil: the worker is back at `range addMsg`.
PublishOk ==
  /\ Alive
  /\ \E k \in Held("publishing") :
       msgs' = [msgs EXCEPT ![k].st = "published"]
  /\ ranging' = ranging + 1
  /\ UNCHANGED <<pcMain, num, messagesLeft, wg, addMsgClosed, exited,
                 msgPayload, payloadCalls, shortUUIDs, reportLines, pubRet,
                 crashed>>
  /\ UNCHANGED sessionVars /\ UNCHANGED closeVars

\* Publish returns an error: the worker is at panic(err).
PublishFail ==
  /\ Alive
  /\ \E k \in Held("publishing") :
       msgs' = [msgs EXCEPT ![k].st = "failed"]
  /\ UNCHANGED <<pcMain, num, messagesLeft, wg, addMsgClosed, ranging,
                 exited, msgPayload, payloadCalls, shortUUIDs, reportLines,
                 pubRet, crashed>>
  /\ UNCHANGED sessionVars /\ UNCHANGED closeVars

\* panic(err) first runs the goroutine's deferred calls: defer wg.Done().
PanicDefer ==
  /\ Alive
  /\ \E k \in Held("failed") :
       msgs' = [msgs EXCEPT ![k].st = "unwound"]
  /\ wg' = wg - 1
  /\ UNCHANGED <<pcMain, num, messagesLeft, addMsgClosed, ranging, exited,
                 msgPayload, payloadCalls, shortUUIDs, reportLines, pubRet,
                 crashed>>
  /\ UNCHANGED sessionVars /\ UNCHANGED closeVars

\* No deferred call recovers: the program is terminated with the panic.
PanicExit ==
  /\ Alive
  /\ Held("unwound") # {}
  /\ crashed' = PublishErr
  /\ UNCHANGED runVars
  /\ UNCHANGED sessionVars /\ UNCHANGED closeVars

\* `range addMsg` ends on the closed channel; the closure returns and its
\* deferred wg.Done() runs.
WorkerExit ==
  /\ Alive
  /\ addMsgClosed /\ ranging > 0
  /\ ranging' = ranging - 1
  /\ exited' = exited + 1
  /\ wg' = wg - 1
  /\ UNCHANGED <<pcMain, num, messagesLeft, addMsgClosed, msgPayload,
                 payloadCalls, msgs, shortUUIDs, reportLines, pubRet, crashed>>
  /\ UNCHANGED sessionVars /\ UNCHANGED closeVars

\* ------------------------------------------------------------ PubSub.Close
CloseErrs(h) == {Nil, h}

\* Mutation of ReturnsAfterPublisher: the publisher's error is dropped.
ReturnsAfterPublisherMutant(err) == FALSE

\* if err := ps.Publisher.Close(); err != nil { return err }
ReturnsAfterPublisher(err) == err # Nil

Close ==
  /\ Alive /\ HasSession
  /\ pcClose = "notcalled"
  /\ pcMain \in {"notcalled", "returned"}
  /\ pcClose' = "publisher"
  /\ UNCHANGED <<closeLog, closeRet, subsClosed, subsErr, crashed>>
  /\ UNCHANGED sessionVars /\ UNCHANGED runVars

ClosePublisher ==
  /\ Alive /\ pcClose = "publisher"
  /\ \E err \in CloseErrs(PubCloseErr) :
       /\ closeLog' = Append(closeLog,
                        [handle |-> ps.Publisher, field |-> "Publisher",
                         err |-> err])
       /\ IF ReturnsAfterPublisher(err)
            THEN closeRet' = err /\ pcClose' = "returned"
            ELSE closeRet' = closeRet /\ pcClose' = "subscriber"
  /\ UNCHANGED <<subsClosed, subsErr, crashed>>
  /\ UNCHANGED sessionVars /\ UNCHANGED runVars

\* return ps.Subscriber.Close(), the subscriber being a single instance.
CloseSubscriber ==
  /\ Alive /\ pcClose = "subscriber"
  /\ subs = 0
  /\ \E err \in CloseErrs(SubCloseErr) :
       /\ closeLog' = Append(closeLog,
                        [handle |-> ps.Subscriber, field |-> "Subscriber",
                         err |-> err])
       /\ closeRet' = err
  /\ pcClose' = "returned"
  /\ UNCHANGED <<subsClosed, subsErr, crashed>>
  /\ UNCHANGED sessionVars /\ UNCHANGED runVars

\* Mutation of MultiplierCloseOne: the multiplier's Close gives up at the
\* first instance whose Close fails.
MultiplierCloseOneMutant ==
  /\ Alive /\ pcClose = "subscriber"
  /\ subs > 0 /\ subsClosed < subs
  /\ \E err \in CloseErrs(SubCloseErr) :
       /\ subsClosed' = subsClosed + 1
       /\ subsErr' = IF subsErr = Nil THEN err ELSE subsErr
       /\ IF err # Nil
            THEN /\ closeLog' = Append(closeLog,
                                  [handle |-> ps.Subscriber,
                                   field |-> "Subscriber", err |-> err])
                 /\ closeRet' = err
                 /\ pcClose' = "returned"
            ELSE UNCHANGED <<pcClose, closeLog, closeRet>>
  /\ UNCHANGED crashed
  /\ UNCHANGED sessionVars /\ UNCHANGED runVars

\* return ps.Subscriber.Close(), the subscriber being a multiplier: its Close
\* closes the next of its instances and keeps the first error.
MultiplierCloseOne ==
  /\ Alive /\ pcClose = "subscriber"
  /\ subs > 0 /\ subsClosed < subs
  /\ \E err \in CloseErrs(SubCloseErr) :
       /\ subsClosed' = subsClosed + 1
       /\ subsErr' = IF subsErr = Nil THEN err ELSE subsErr
  /\ UNCHANGED <<pcClose, closeLog, closeRet, crashed>>
  /\ UNCHANGED sessionVars /\ UNCHANGED runVars

\* The multiplier's Close has gone through its instances and returns the
\* error it collected; PubSub.Close returns that value.
MultiplierCloseDone ==
  /\ Alive /\ pcClose = "subscriber"
  /\ subs > 0 /\ ~(subsClosed < subs)
  /\ closeLog' = Append(closeLog,
                   [handle |-> ps.Subscriber, field |-> "Subscriber",
                    err |-> subsErr])
  /\ closeRet' = subsErr
  /\ pcClose' = "returned"
  /\ UNCHANGED <<subsClosed, subsErr, crashed>>
  /\ UNCHANGED sessionVars /\ UNCHANGED runVars

Next ==
  \/ NewPubSubUnknown \/ NewPubSubOk \/ NewPubSubPanic
  \/ PublishMessages \/ SpawnWorker \/ SpawnDone
  \/ PayloadOk \/ PayloadErr \/ PayloadPanic
  \/ BuildMessage \/ Handoff \/ CloseAddMsg \/ WgWait \/ Report \/ ReturnNil
  \/ SetCorrelationID \/ PublishCall \/ PublishOk \/ PublishFail
  \/ PanicDefer \/ PanicExit \/ WorkerExit
  \/ Close \/ ClosePublisher \/ CloseSubscriber
  \/ MultiplierCloseOne \/ MultiplierCloseDone

Spec == Init /\ [][Next]_vars

\* Steps of the goroutine that runs PublishMessages.
ProducerStep ==
  \/ SpawnWorker \/ SpawnDone \/ PayloadOk \/ PayloadErr \/ PayloadPanic
  \/ BuildMessage \/ Handoff \/ CloseAddMsg \/ WgWait \/ Report
  \/ ReturnNil

\* Steps of the worker goroutines, the return of Publish included.
WorkerStep ==
  \/ SetCorrelationID \/ PublishCall \/ PublishOk \/ PublishFail
  \/ PanicDefer \/ PanicExit \/ WorkerExit

\* PublishMessages reads ps.MessagesCount, ps.MessageSize, ps.Topic and
\* ps.Publisher only, and nothing of them depends on the backend but the
\* default count: the runs under fair scheduling are those of a session on
\* the in-process backend, the one that needs no external service.
NewPubSubInProcess == NewPubSubOk /\ args'.name = "gochannel"

FairNext == NewPubSubInProcess \/ PublishMessages \/ ProducerStep \/ WorkerStep

\* The Go scheduler runs a runnable goroutine eventually, and a Publish
\* invocation returns: the producer and the pool of workers each take a step
\* when one stays possible.  Whether the caller calls PublishMessages is left
\* to the caller.
FairSpec ==
  Init /\ [][FairNext]_vars /\ WF_vars(ProducerStep) /\ WF_vars(WorkerStep)

\* ================================================================ claims
RECURSIVE SumCalls(_)
SumCalls(n) == IF n = 0 THEN 0 ELSE msgs[n].calls + SumCalls(n - 1)

\* Publisher.Publish invocations made so far by all workers.
PublishInvocations == SumCalls(Len(msgs))

\* PublishMessages has returned nil to its caller.
RunCompleted == pcMain = "returned" /\ pubRet = Nil

\* Some Publish invocation has returned an error.
PublishFailed ==
  \E k \in 1 .. Len(msgs) : msgs[k].st \in {"failed", "unwound"}

\* C1: when PublishMessages has returned nil, the number of Publish
\* invocations made by the workers equals ps.MessagesCount.
C1_PublishCountIsMessagesCount ==
  RunCompleted => PublishInvocations = ps.MessagesCount

\* C2: an explicit messagesCount above 0 is the resolved count; 0 resolves to
\* the definition's MessagesCount when that is non-zero and to 1,000,000
\* otherwise.
C2_CountPrecedence ==
  HasSession =>
    LET d == pubSubDefinitions[args.name].MessagesCount IN
      /\ args.messagesCount > 0 => ps.MessagesCount = args.messagesCount
      /\ (args.messagesCount = 0 /\ d # 0) => ps.MessagesCount = d
      /\ (args.messagesCount = 0 /\ d = 0) => ps.MessagesCount = 1000000

\* C2 witness: an override of 0 on a backend with its own default.
C2_Witness ==
  /\ HasSession /\ args.messagesCount = 0 /\ args.name = "mysql"
  /\ ps.MessagesCount = 30000

\* C3: every session NewPubSub returns has a positive MessagesCount.
C3_CountPositive == HasSession => ps.MessagesCount > 0

EightNames ==
  {"gochannel", "kafka", "kafka-multinode", "nats", "googlecloud", "mysql",
   "postgresql", "amqp"}

\* C4: NewPubSub returns the unknown-PubSub error exactly when the name is
\* not one of the eight registered names, and then no Constructor has been
\* invoked, the session has no publisher or subscriber and no worker is
\* ever started.
C4_UnknownBackend ==
  /\ pcNew = "returned" =>
       (newErr # Nil <=> args.name \notin EightNames)
  /\ pcNew # "returned" => newErr = Nil
  /\ newErr # Nil =>
       /\ newErr = UnknownPubSubErr(args.name)
       /\ constructed = {}
       /\ ps.Publisher = Nil /\ ps.Subscriber = Nil
       /\ pcMain = "notcalled" /\ num = 0 /\ ranging = 0 /\ wg = 0

\* C4 witness: NewPubSub("doesnotexist", ...) has returned its error.
C4_Witness ==
  /\ pcNew = "returned" /\ args.name = "doesnotexist"
  /\ newErr = "unknown PubSub: doesnotexist"

ClosedFields(f) ==
  {i \in 1 .. Len(closeLog) : closeLog[i].field = f}

\* C5: once PubSub.Close has returned, Subscriber.Close has been invoked,
\* whatever Publisher.Close returned.
C5_BothReleasesAttempted ==
  pcClose = "returned" => ClosedFields("Subscriber") # {}

\* C6: Subscriber.Close is never invoked before Publisher.Close, and Close
\* returns the publisher's error if Publisher.Close failed, else the
\* subscriber's error if Subscriber.Close failed, and nil exactly when both
\* releases succeeded.
C6_CloseOrderAndResult ==
  /\ \A i \in ClosedFields("Subscriber") :
       \E j \in ClosedFields("Publisher") : j < i
  /\ pcClose = "returned" =>
       LET pubFailed ==
             \E i \in ClosedFields("Publisher") : closeLog[i].err # Nil
           subFailed ==
             \E i \in ClosedFields("Subscriber") : closeLog[i].err # Nil
           bothOk ==
             /\ \E i \in ClosedFields("Publisher") : closeLog[i].err = Nil
             /\ \E i \in ClosedFields("Subscriber") : closeLog[i].err = Nil
       IN /\ pubFailed => closeRet = PubCloseErr
          /\ (~pubFailed /\ subFailed) => closeRet = SubCloseErr
          /\ closeRet = Nil <=> bothOk

\* C6 witness: the publisher was released, the subscriber's release failed
\* and Close returned that error.
C6_Witness ==
  /\ pcClose = "returned" /\ Len(closeLog) = 2
  /\ closeLog[1].field = "Publisher" /\ closeLog[1].err = Nil
  /\ closeLog[2].field = "Subscriber" /\ closeLog[2].err = SubCloseErr
  /\ closeRet = SubCloseErr

\* C7: once a Publish invocation has returned an error, no report line is
\* printed, PublishMessages does not return nil, and the failed envelope is
\* not passed to Publish again.
C7_AbortOnPublishError ==
  [][PublishFailed =>
       /\ reportLines' = reportLines
       /\ ~(pcMain' = "returned" /\ pubRet' = Nil)
       /\ \A k \in 1 .. Len(msgs) :
            msgs[k].st \in {"failed", "unwound"} =>
              msgs'[k].calls = msgs[k].calls]_vars

\* C8: when a Publish invocation has failed and the run is over, the caller
\* of PublishMessages has got the publish error as the call's return value.
C8_PublishErrorReturned ==
  (PublishFailed /\ (pcMain = "returned" \/ crashed # Nil)) =>
    (pcMain = "returned" /\ pubRet = PublishErr)

\* C9: payload() is invoked once per run, its buffer has length
\* ps.MessageSize, and every envelope passed to Publish carries that buffer.
C9_OnePayloadOfMessageSize ==
  /\ payloadCalls <= 1
  /\ pcMain \in {"loop", "send", "wait", "report", "return"} =>
       (payloadCalls = 1 /\ Len(msgPayload) = ps.MessageSize)
  /\ \A k \in 1 .. Len(msgs) :
       msgs[k].calls > 0 =>
         /\ msgs[k].payload = msgPayload
         /\ Len(msgs[k].payload) = ps.MessageSize

\* C9 witness: two envelopes with a non-empty payload have been published.
C9_Witness ==
  /\ Len(msgs) >= 2 /\ ps.MessageSize > 0
  /\ msgs[1].calls > 0 /\ msgs[2].calls > 0
  /\ msgs[1].st = "published" /\ msgs[2].st = "published"

\* C10: every session NewPubSub returns has UUIDFunc set: the definition's
\* own function when it has one, a generic one otherwise.
C10_UUIDFuncSet ==
  HasSession =>
    /\ ps.UUIDFunc # Nil
    /\ pubSubDefinitions[args.name].UUIDFunc # Nil =>
         ps.UUIDFunc = pubSubDefinitions[args.name].UUIDFunc

\* The multiplier's Close has been invoked and has returned.
MultiplierClosed ==
  /\ subs > 0 /\ pcClose = "returned"
  /\ ClosedFields("Subscriber") # {}

\* C11: the multiplier built by NewMultiplier(factory, 16) with a factory that
\* succeeds every time holds 16 subscriber instances, and once its Close has
\* returned it has closed all 16, whether or not one of them failed.
C11_MultiplierClosesAll ==
  /\ (HasSession /\ args.name \in {"googlecloud", "amqp"}) => subs = 16
  /\ (HasSession /\ args.name \notin {"googlecloud", "amqp"}) => subs = 0
  /\ subsClosed <= subs
  /\ MultiplierClosed => subsClosed = 16

\* C11 witness: all 16 instances were closed although one Close failed.
C11_Witness ==
  /\ MultiplierClosed /\ subsClosed = 16
  /\ subsErr = SubCloseErr /\ closeRet = SubCloseErr

\* Workers holding an envelope between the receive and the return of Publish.
BusyWorkers == Held("received") \cup Held("stamped") \cup Held("publishing")

\* Workers that are panicking: Publish returned an error to them.
PanickingWorkers == Held("failed") \cup Held("unwound")

\* C12: no envelope is built or offered, and payload() is not called, before
\* the spawning loop has started 200 workers; the number started is never
\* above 200 and is 200 from then on, whatever MessagesCount and MessageSize.
C12_PoolStartedFirst ==
  /\ num <= 200
  /\ (Len(msgs) > 0 \/ payloadCalls > 0) => num = 200
  /\ pcMain \notin {"notcalled", "spawn"} => num = 200
  /\ ranging + exited + Cardinality(BusyWorkers)
       + Cardinality(PanickingWorkers) = num

\* C12 witness: a run with fewer messages than workers has 200 workers while
\* its only envelope is being offered.
C12_Witness ==
  /\ ps.MessagesCount = 1 /\ pcMain = "send" /\ Len(msgs) = 1
  /\ num = 200 /\ ranging = 200

\* Envelopes built whose Publish invocation has not returned.
InFlight == Held("offered") \cup BusyWorkers

\* C13: addMsg holds no envelope: at most one envelope is on offer, it is the
\* last one built and the producer is at the send; the envelopes built whose
\* Publish has not returned are those held by workers plus the one on offer,
\* hence at most 200 + 1.
C13_NoBuffering ==
  /\ Cardinality(Held("offered")) <= 1
  /\ Held("offered") # {} =>
       (pcMain = "send" /\ Held("offered") = {Len(msgs)})
  /\ Cardinality(InFlight) <=
       (num - ranging - exited - Cardinality(PanickingWorkers))
         + (IF pcMain = "send" THEN 1 ELSE 0)
  /\ Cardinality(InFlight) <= 200 + 1

\* C13 witness: the producer is offering the second envelope while a worker
\* is inside Publish with the first.
C13_Witness ==
  /\ pcMain = "send" /\ Len(msgs) = 2
  /\ msgs[1].st = "publishing" /\ msgs[2].st = "offered"

\* C14: the report line is printed and nil returned only after
\* close(addMsg), with no worker left in its loop and every Publish
\* invocation returned; nothing is handed to Publish afterwards.
C14_ReportAfterAll ==
  (pcMain \in {"report", "return"} \/ reportLines > 0 \/ RunCompleted) =>
    /\ addMsgClosed
    /\ messagesLeft <= 0
    /\ wg = 0
    /\ ranging = 0
    /\ InFlight = {} /\ Held("failed") = {}
    /\ exited + Cardinality(Held("unwound")) = 200
    /\ \A k \in 1 .. Len(msgs) : msgs[k].calls = 1

\* C14 witness: the line has been printed after two envelopes were published
\* and all workers returned.
C14_Witness ==
  /\ reportLines = 1 /\ RunCompleted /\ Len(msgs) = 2 /\ exited = 200
  /\ msgs[1].st = "published" /\ msgs[2].st = "published"

\* The run has left the case C15 is about: payload() failed or panicked, or
\* a Publish invocation returned an error.
C15_Excluded ==
  \/ PublishFailed
  \/ crashed # Nil
  \/ (pcMain = "returned" /\ pubRet = ReadErr)

\* C15: under fair scheduling a run whose payload() succeeds and whose
\* Publish invocations all return nil ends with PublishMessages returned and
\* all 200 workers returned, none left waiting on addMsg.
C15_RunTerminates ==
  (pcMain = "spawn") ~>
    (C15_Excluded \/ (RunCompleted /\ exited = 200 /\ ranging = 0))

\* C15 witness: a run of one envelope has returned and its 200 workers, 199
\* of which never received an envelope, have returned.
C15_Witness ==
  /\ RunCompleted /\ ~C15_Excluded /\ ps.MessagesCount = 1
  /\ Len(msgs) = 1 /\ exited = 200 /\ ranging = 0

\* C16: when PublishMessages has returned, with nil or with an error, no
\* worker is waiting on addMsg or holding an envelope.
C16_NoWorkerLeftOnReturn ==
  pcMain = "returned" =>
    /\ ranging = 0
    /\ BusyWorkers = {}
    /\ exited + Cardinality(PanickingWorkers) = num

\* C17: every envelope's identifier comes from the session's UUIDFunc.
C17_IdFromUUIDFunc ==
  \A k \in 1 .. Len(msgs) : msgs[k].uuid[1] = ps.UUIDFunc

\* C18: every envelope is received by one worker and passed to Publish once;
\* when a run without publish errors has completed, every envelope built has
\* been received once and published once.
C18_ExactlyOncePerEnvelope ==
  /\ \A k \in 1 .. Len(msgs) :
       /\ msgs[k].recvs <= 1 /\ msgs[k].calls <= 1
       /\ msgs[k].st # "offered" => msgs[k].recvs = 1
       /\ msgs[k].st \in {"publishing", "published", "failed", "unwound"}
            => msgs[k].calls = 1
  /\ (RunCompleted /\ ~PublishFailed) =>
       \A k \in 1 .. Len(msgs) :
         /\ msgs[k].st = "published"
         /\ msgs[k].recvs = 1 /\ msgs[k].calls = 1

\* C18 witness: a run of two envelopes completed without publish error.
C18_Witness ==
  /\ RunCompleted /\ ~PublishFailed /\ Len(msgs) = 2
  /\ msgs[1].calls = 1 /\ msgs[2].calls = 1

\* C19: an envelope gets its correlation id once, after a worker received it
\* and before that worker invokes Publish; the id is a NewShortUUID value,
\* not the envelope's own identifier.
C19_CorrelationBeforePublish ==
  \A k \in 1 .. Len(msgs) :
    /\ msgs[k].stamps <= 1
    /\ msgs[k].stamps > 0 => msgs[k].recvs > 0
    /\ msgs[k].calls > 0 => (msgs[k].stamps = 1 /\ msgs[k].corr # <<>>)
    /\ msgs[k].stamps = 1 =>
         (msgs[k].corr[1] = "short" /\ msgs[k].corr # msgs[k].uuid)
    /\ msgs[k].stamps = 0 => msgs[k].corr = <<>>

\* C19 witness: a worker is inside Publish with a stamped envelope.
C19_Witness ==
  /\ Len(msgs) >= 1 /\ msgs[1].st = "publishing"
  /\ msgs[1].stamps = 1 /\ msgs[1].corr # <<>>

\* C20: whatever the order in which the workers publish, a run that has
\* completed has submitted each of its MessagesCount envelopes to Publish.
C20_AllSubmittedAnyOrder ==
  RunCompleted =>
    /\ messagesLeft <= 0
    /\ \A k \in 1 .. ps.MessagesCount :
         k <= Len(msgs) /\ msgs[k].calls >= 1

\* C20 witness: the envelope built second has been published while the one
\* built first has not yet been passed to Publish.
C20_Witness ==
  /\ Len(msgs) >= 2
  /\ msgs[2].st = "published" /\ msgs[1].calls = 0
  /\ msgs[1].st \in {"received", "stamped"}
====
